---------------------------- MODULE Spec2Model ----------------------------
(***************************************************************************)
(* Model of the metrics instrumentation of ctms (src/ctms/metrics.py):     *)
(* get_metrics_reporting_registry, init_metrics, init_metrics_labels and   *)
(* emit_response_metrics, over the series of the four Prometheus metrics.  *)
(*                                                                         *)
(* Representation.                                                         *)
(*  - A metric is a function from label tuples (its series) to values: a   *)
(*    natural number for a Counter, a record [count, sum, buckets] for a   *)
(*    Histogram.  A series that was never touched is not in the DOMAIN.    *)
(*  - Durations are integers in milliseconds (0.02 s is 20), so the        *)
(*    histogram bounds 0.01 .. 10 are 10 .. 10000; +Inf is the last bucket.*)
(*  - An optional Python value is None (<<>>) or <<v>>.                    *)
(*  - Python strings are TLA+ strings; str(), int(), upper(), endswith()   *)
(*    and indexing are computed character by character.                    *)
(***************************************************************************)
EXTENDS Integers, Sequences, FiniteSets, TLC

VARIABLES
    routes,         \* app.routes
    openapi,        \* app.openapi()["paths"]
    db_client_ids,  \* get_active_api_client_ids(dbsession)
    settings,       \* what config.Settings() yields in this environment
    metrics,        \* the metrics mapping: key -> (label tuple -> value)
    registries,     \* the CollectorRegistry objects: identity -> collectors
    reporting,      \* what get_metrics_reporting_registry returned last
    returned,       \* the identities it returned in earlier calls
    raised,         \* the exception the last call let out ("" when none)
    ncalls,         \* calls made so far: [init, emit, report]
    inflight        \* the emit calls of concurrent requests: [context, pc]

vars == << routes, openapi, db_client_ids, settings, metrics, registries,
           reporting, returned, raised, ncalls, inflight >>

app == << routes, openapi, db_client_ids >>

-----------------------------------------------------------------------------
(* Python values and string conversions *)

None == << >>

Some(v) == << v >>

\* a test for None only, which takes "" for a value
TruthyNotNone(v) == v # None

\* bool(v) of an optional string: None and "" are falsy
Truthy(v) == v # None /\ v[1] # ""

DecimalDigits == "0123456789"

LowerCase == "abcdefghijklmnopqrstuvwxyz"

UpperCase == "ABCDEFGHIJKLMNOPQRSTUVWXYZ"

CharAt(s, i) == SubSeq(s, i, i)

\* str(n) of a non-negative int
RECURSIVE Str(_)
Str(n) ==
    IF n < 10 THEN CharAt(DecimalDigits, n + 1)
    ELSE Str(n \div 10) \o CharAt(DecimalDigits, (n % 10) + 1)

\* int(s) of a string of decimal digits
RECURSIVE ToInt(_)
ToInt(s) ==
    IF s = "" THEN 0
    ELSE LET c == CharAt(s, Len(s))
             d == CHOOSE i \in 0..9 : CharAt(DecimalDigits, i + 1) = c
         IN  10 * ToInt(SubSeq(s, 1, Len(s) - 1)) + d

\* the upper case of each character that has one
UpperOf == [ i \in 1..Len(LowerCase) |->
               << CharAt(LowerCase, i), CharAt(UpperCase, i) >> ]

UpperChar(c) ==
    IF \E i \in DOMAIN UpperOf : UpperOf[i][1] = c
    THEN UpperOf[CHOOSE i \in DOMAIN UpperOf : UpperOf[i][1] = c][2]
    ELSE c

\* s.upper()
RECURSIVE Upper(_)
Upper(s) ==
    IF s = "" THEN ""
    ELSE UpperChar(CharAt(s, 1)) \o Upper(SubSeq(s, 2, Len(s)))

\* s.endswith(suffix)
EndsWith(s, suffix) ==
    /\ Len(s) >= Len(suffix)
    /\ SubSeq(s, Len(s) - Len(suffix) + 1, Len(s)) = suffix

\* a family taken from the second digit
StatusCodeFamilySecondDigit(status_code) == CharAt(Str(status_code), 2) \o "xx"

\* str(status_code)[0] + "xx"
StatusCodeFamily(status_code) == CharAt(Str(status_code), 1) \o "xx"

\* the elements of a list
Range(seq) == { seq[i] : i \in DOMAIN seq }

-----------------------------------------------------------------------------
(* METRICS_PARAMS and the metric primitives *)

MetricKeys == { "requests", "requests_duration", "api_requests",
                "pending_acoustic_sync" }

\* the "buckets" of ctms_requests_duration_seconds, in ms; INF is bucket 8
BucketBounds == << 10, 50, 100, 500, 1000, 5000, 10000 >>

Buckets == 1 .. (Len(BucketBounds) + 1)

\* amount <= bound of bucket i
WithinBucket(amount, i) == i > Len(BucketBounds) \/ amount <= BucketBounds[i]

ZeroCounter == 0

ZeroHistogram == [ count |-> 0, sum |-> 0, buckets |-> [ i \in Buckets |-> 0 ] ]

NoSeries == << >>

\* a labels() that hands out a new series at zero each time
LabelsFresh(metric, key, zero) ==
    [ k \in (DOMAIN metric) \cup { key } |-> IF k = key THEN zero ELSE metric[k] ]

\* metric.labels(...): the series of these labels, created at zero if new
Labels(metric, key, zero) ==
    IF key \in DOMAIN metric THEN metric ELSE metric @@ (key :> zero)

\* an increment that counts only on a series that exists
IncExisting(metric, key) ==
    IF key \in DOMAIN metric THEN [ metric EXCEPT ![key] = @ + 1 ] ELSE metric

\* metric.labels(...).inc()
Inc(metric, key) ==
    LET m == Labels(metric, key, ZeroCounter)
    IN  [ m EXCEPT ![key] = @ + 1 ]

\* metric.labels(...).observe(amount): the samples as exposed (cumulative)
Observe(metric, key, amount) ==
    LET m == Labels(metric, key, ZeroHistogram)
    IN  [ m EXCEPT ![key] =
            [ count   |-> @.count + 1,
              sum     |-> @.sum + amount,
              buckets |-> [ i \in Buckets |->
                              IF WithinBucket(amount, i)
                              THEN @.buckets[i] + 1 ELSE @.buckets[i] ] ] ]

\* the metrics mapping of a process that never built its metrics
NoMetrics == << >>

\* init_metrics(registry): one metric per entry of METRICS_PARAMS; the
\* metric without labels is its own single series
init_metrics ==
    [ k \in MetricKeys |->
        IF k = "pending_acoustic_sync" THEN (<< >> :> ZeroCounter) ELSE NoSeries ]

-----------------------------------------------------------------------------
(* init_metrics_labels *)

\* the list of the database as it is, without the placeholder
ActiveClientIdsNoPlaceholder(db_ids) == db_ids

\* get_active_api_client_ids(dbsession) or ["none"]
ActiveClientIds(db_ids) == IF db_ids = << >> THEN << "none" >> ELSE db_ids

\* openapi["paths"].get(path): the path item, a list of
\* [method_lower, mspec] in the order of the dict, or None
ApiSpec(spec, path) == IF path \in DOMAIN spec THEN Some(spec[path]) ELSE None

\* [int(code) for code in list(mspec.get("responses", [200]))]
DeclaredStatusCodes(mspec) ==
    IF mspec.responses = None THEN << 200 >>
    ELSE LET codes == mspec.responses[1]
         IN  [ i \in DOMAIN codes |-> ToInt(codes[i]) ]

\* method_lower.upper(), for the keys a path item can have
MethodUpper == [ k \in { "get", "post" } |-> Upper(k) ]

\* a loop that takes the codes of every method of the path item
RECURSIVE CollectAllStatusCodes(_, _)
CollectAllStatusCodes(items, methods) ==
    IF items = << >> THEN << >>
    ELSE DeclaredStatusCodes(Head(items).mspec)
             \o CollectAllStatusCodes(Tail(items), methods)

\* the loop over api_spec.items(): the codes of the methods of the route
RECURSIVE CollectStatusCodes(_, _)
CollectStatusCodes(items, methods) ==
    IF items = << >> THEN << >>
    ELSE LET item == Head(items)
             rest == CollectStatusCodes(Tail(items), methods)
         IN  IF MethodUpper[item.method_lower] \in methods
             THEN DeclaredStatusCodes(item.mspec) \o rest
             ELSE rest

\* status_codes without the branch of the root path
StatusCodesNoRedirect(route, spec) ==
    LET api_spec == ApiSpec(spec, route.path_format)
    IN  IF api_spec # None /\ api_spec[1] # << >>
        THEN CollectStatusCodes(api_spec[1], route.methods)
        ELSE << 200 >>

\* status_codes of a route: declared, or 307 for "/", or 200
StatusCodes(route, spec) ==
    LET api_spec == ApiSpec(spec, route.path_format)
    IN  IF api_spec # None /\ api_spec[1] # << >>
        THEN CollectStatusCodes(api_spec[1], route.methods)
        ELSE IF route.path_format = "/" THEN << 307 >>
        ELSE << 200 >>

\* is_api without the exemption of the pubsub path
IsApiWithPubsub(route, spec) ==
    LET api_spec == ApiSpec(spec, route.path_format)
    IN  /\ api_spec # None
        /\ \E i \in DOMAIN api_spec[1] :
             /\ MethodUpper[api_spec[1][i].method_lower] \in route.methods
             /\ api_spec[1][i].mspec.security

\* is_api of a route: some method of the route declares "security", and the
\* path is not the pubsub one
IsApi(route, spec) ==
    LET api_spec == ApiSpec(spec, route.path_format)
    IN  /\ api_spec # None
        /\ \E i \in DOMAIN api_spec[1] :
             /\ MethodUpper[api_spec[1][i].method_lower] \in route.methods
             /\ api_spec[1][i].mspec.security
             /\ ~ EndsWith(route.path_format, "from_pubsub")

\* one "family" per status code
StatusCodeFamiliesPerCode(status_codes) ==
    { Str(code) : code \in Range(status_codes) }

\* {str(code)[0] + "xx" for code in status_codes}
StatusCodeFamilies(status_codes) ==
    { StatusCodeFamily(code) : code \in Range(status_codes) }

\* the label tuples of request_metric for product(methods, status_codes)
RequestCombos(methods, path, status_codes) ==
    { << method, path, Str(status_code), StatusCodeFamily(status_code) >> :
        method \in methods, status_code \in Range(status_codes) }

\* the label tuples of timing_metric for product(methods, status_code_families)
TimingCombos(methods, path, status_code_families) ==
    { << method, path, family >> :
        method \in methods, family \in status_code_families }

\* the label tuples of api_request_metric for
\* product(methods, status_code_families) and each client id
ApiCombos(methods, path, status_code_families, client_ids) ==
    { << method, path, client_id, family >> :
        method \in methods, family \in status_code_families,
        client_id \in Range(client_ids) }

\* a touch that counts: a series that exists already is incremented (the
\* series of three labels are those of the histogram)
LabelsAllInc(metric, keys, zero) ==
    [ k \in (DOMAIN metric) \cup keys |->
        IF k \notin DOMAIN metric THEN zero
        ELSE IF k \notin keys THEN metric[k]
        ELSE IF Len(k) = 3 THEN [ metric[k] EXCEPT !.count = @ + 1 ]
        ELSE metric[k] + 1 ]

\* metric.labels(...) for each tuple of keys
LabelsAll(metric, keys, zero) ==
    [ k \in (DOMAIN metric) \cup keys |->
        IF k \in DOMAIN metric THEN metric[k] ELSE zero ]

\* the body of the loop over app.routes, for one route
InitRouteLabels(route, spec, client_ids, m) ==
    LET methods == route.methods
        path == route.path_format
        status_codes == StatusCodes(route, spec)
        is_api == IsApi(route, spec)
        status_code_families == StatusCodeFamilies(status_codes)
    IN  [ m EXCEPT
            !["requests"] =
                LabelsAll(@, RequestCombos(methods, path, status_codes),
                          ZeroCounter),
            !["requests_duration"] =
                LabelsAll(@, TimingCombos(methods, path, status_code_families),
                          ZeroHistogram),
            !["api_requests"] =
                IF is_api
                THEN LabelsAll(@, ApiCombos(methods, path, status_code_families,
                                            client_ids), ZeroCounter)
                ELSE @ ]

\* isinstance(route, Route): the entry has the fields of a Route
IsInstanceRoute(entry) == DOMAIN entry = { "methods", "path_format" }

\* the loop over app.routes: the assertion of line 114 ends the call at the
\* first entry that is not a Route, after the series of the routes before it
RECURSIVE InitAllRoutes(_, _, _, _)
InitAllRoutes(rs, spec, client_ids, m) ==
    IF rs = << >> THEN [ metrics |-> m, raised |-> "" ]
    ELSE IF ~ IsInstanceRoute(Head(rs))
    THEN [ metrics |-> m, raised |-> "AssertionError" ]
    ELSE InitAllRoutes(Tail(rs), spec, client_ids,
                       InitRouteLabels(Head(rs), spec, client_ids, m))

\* init_metrics_labels(dbsession, app, metrics): the metrics afterwards and
\* the exception let out
init_metrics_labels(rs, spec, db_ids, m) ==
    IF ~ ({ "requests", "requests_duration", "api_requests" } \subseteq DOMAIN m)
    THEN [ metrics |-> m, raised |-> "KeyError" ]
    ELSE InitAllRoutes(rs, spec, ActiveClientIds(db_ids), m)

-----------------------------------------------------------------------------
(* emit_response_metrics *)

\* context.get(key)
Get(context, key) == IF key \in DOMAIN context THEN context[key] ELSE None

\* the label values of the three series of a context (lines 164-167)
RequestsLabels(context) ==
    << context.method, context.path_template[1], Str(context.status_code),
       StatusCodeFamily(context.status_code) >>

\* duration labels that keep the status code in place of its family
DurationLabelsPerCode(context) ==
    << context.method, context.path_template[1], Str(context.status_code) >>

DurationLabels(context) ==
    << context.method, context.path_template[1],
       StatusCodeFamily(context.status_code) >>

ApiRequestsLabels(context) ==
    << context.method, context.path_template[1], Get(context, "client_id")[1],
       StatusCodeFamily(context.status_code) >>

\* lines 169-174: metrics["requests"].labels(...).inc()
EmitRequests(context, m) ==
    IF "requests" \notin DOMAIN m
    THEN [ metrics |-> m, raised |-> "KeyError" ]
    ELSE [ metrics |-> [ m EXCEPT !["requests"] = Inc(@, RequestsLabels(context)) ],
           raised  |-> "" ]

\* lines 176-180: metrics["requests_duration"].labels(...).observe(duration_s)
EmitDuration(context, m) ==
    IF "requests_duration" \notin DOMAIN m
    THEN [ metrics |-> m, raised |-> "KeyError" ]
    ELSE [ metrics |-> [ m EXCEPT !["requests_duration"] =
                           Observe(@, DurationLabels(context), context.duration_s) ],
           raised  |-> "" ]

\* lines 182-189: metrics["api_requests"].labels(...).inc() for a client_id
EmitApiRequests(context, m) ==
    IF ~ Truthy(Get(context, "client_id"))
    THEN [ metrics |-> m, raised |-> "" ]
    ELSE IF "api_requests" \notin DOMAIN m
    THEN [ metrics |-> m, raised |-> "KeyError" ]
    ELSE [ metrics |-> [ m EXCEPT !["api_requests"] =
                           Inc(@, ApiRequestsLabels(context)) ],
           raised  |-> "" ]

\* the updates without the observation of the duration
EmitUpdatesNoObserve(context, m) ==
    LET r1 == EmitRequests(context, m)
    IN  IF r1.raised # "" THEN r1 ELSE EmitApiRequests(context, r1.metrics)

\* the three updates of lines 169-189 in their order, for a context that has
\* its fields: an update that raises ends the call and keeps the earlier ones
EmitUpdates(context, m) ==
    LET r1 == EmitRequests(context, m)
    IN  IF r1.raised # "" THEN r1
        ELSE LET r2 == EmitDuration(context, r1.metrics)
             IN  IF r2.raised # "" THEN r2
                 ELSE EmitApiRequests(context, r2.metrics)

\* an emit that skips only a path_template that is None
emit_response_metrics_none_only(context, m) ==
    IF m = NoMetrics THEN [ metrics |-> m, raised |-> "" ]
    ELSE IF Get(context, "path_template") = None
    THEN [ metrics |-> m, raised |-> "" ]
    ELSE EmitUpdates(context, m)

\* emit_response_metrics(context, metrics): the metrics afterwards and the
\* exception let out
emit_response_metrics(context, m) ==
    IF m = NoMetrics THEN [ metrics |-> m, raised |-> "" ]
    ELSE IF ~ Truthy(Get(context, "path_template"))
    THEN [ metrics |-> m, raised |-> "" ]
    ELSE IF ~ ({ "method", "duration_s", "status_code" } \subseteq DOMAIN context)
    THEN [ metrics |-> m, raised |-> "KeyError" ]
    ELSE EmitUpdates(context, m)

-----------------------------------------------------------------------------
(* get_metrics_reporting_registry *)

\* the registry of the process, built once at startup
ProcessRegistry == 1

\* what registering the metrics of init_metrics leaves in a registry
MetricCollectors(m) == { [ kind |-> "Metric", of |-> k ] : k \in DOMAIN m }

\* MultiProcessCollector(registry, path=...)
MultiProcessCollector(path) == [ kind |-> "MultiProcessCollector", of |-> path ]

\* CollectorRegistry(): a new object, of an identity no live object has
NewRegistry(regs) == Cardinality(DOMAIN regs) + 1

\* lines 82-86: the directory of the settings, None on a ValidationError
MultiprocDir(s) == IF s.error THEN None ELSE s.prometheus_multiproc_dir

\* a variant that attaches the collector to the registry of the process
get_metrics_reporting_registry_shared(process_registry, s, regs) ==
    LET prometheus_multiproc_dir == MultiprocDir(s)
    IN  IF Truthy(prometheus_multiproc_dir)
        THEN [ result     |-> process_registry,
               registries |-> [ regs EXCEPT ![process_registry] = @ \cup
                   { MultiProcessCollector(prometheus_multiproc_dir[1]) } ],
               raised     |-> "" ]
        ELSE [ result |-> process_registry, registries |-> regs, raised |-> "" ]

\* a variant without the except clause: the ValidationError of the settings
\* gets out and nothing is returned
get_metrics_reporting_registry_uncaught(process_registry, s, regs) ==
    LET prometheus_multiproc_dir == s.prometheus_multiproc_dir
        registry == NewRegistry(regs)
    IN  IF s.error
        THEN [ result |-> 0, registries |-> regs, raised |-> "ValidationError" ]
        ELSE IF Truthy(prometheus_multiproc_dir)
        THEN [ result     |-> registry,
               registries |-> regs @@
                   (registry :> { MultiProcessCollector(prometheus_multiproc_dir[1]) }),
               raised     |-> "" ]
        ELSE [ result |-> process_registry, registries |-> regs, raised |-> "" ]

\* get_metrics_reporting_registry(process_registry): the registry returned,
\* the registries afterwards and the exception let out
get_metrics_reporting_registry(process_registry, s, regs) ==
    LET prometheus_multiproc_dir == MultiprocDir(s)
        registry == NewRegistry(regs)
    IN  IF Truthy(prometheus_multiproc_dir)
        THEN [ result     |-> registry,
               registries |-> regs @@
                   (registry :> { MultiProcessCollector(prometheus_multiproc_dir[1]) }),
               raised     |-> "" ]
        ELSE [ result |-> process_registry, registries |-> regs, raised |-> "" ]

-----------------------------------------------------------------------------
(* Bounds and inputs *)

MaxInitCalls == 2

MaxEmitCalls == 2

MaxReportCalls == 2

MaxRoutes == 2

MaxInflight == 3

Methods == { "GET", "POST" }

RootPath == "/"

ContactPath == "/ctms/{email_id}"

PubsubPath == "/stripe_from_pubsub"

CrashPath == "/__crash__"

ClientIds == { "abc", "xyz" }

\* what config.Settings() can yield: a ValidationError, or settings whose
\* prometheus_multiproc_dir is None, empty or a directory
SettingsOutcomes ==
    { [ error |-> TRUE, prometheus_multiproc_dir |-> None ] } \cup
    { [ error |-> FALSE, prometheus_multiproc_dir |-> d ] :
        d \in { None, Some(""), Some("/tmp/ctms_metrics") } }

\* the contexts the middleware hands to emit_response_metrics; path_template
\* and client_id may be missing, None or empty
ContextFields(paths, clients) ==
    [ method : Methods, path_template : paths, status_code : { 200, 404 },
      duration_s : { 20, 500 }, client_id : clients ]

Without(context, key) ==
    [ k \in (DOMAIN context) \ { key } |-> context[k] ]

Contexts ==
    LET paths == { None, Some(""), Some(ContactPath) }
        clients == { None, Some(""), Some("abc") }
        full == ContextFields(paths, clients)
    IN  full
        \cup { Without(c, "path_template") : c \in ContextFields({ None }, clients) }
        \cup { Without(c, "client_id") : c \in ContextFields(paths, { None }) }

\* the contexts of the requests of the test suite and of the examples
SampleContexts ==
    { [ method |-> "GET", path_template |-> Some(ContactPath), status_code |-> 200,
        duration_s |-> 20, client_id |-> Some("abc") ],
      [ method |-> "GET", path_template |-> Some(ContactPath), status_code |-> 404,
        duration_s |-> 20, client_id |-> Some("abc") ],
      [ method |-> "GET", path_template |-> Some(ContactPath), status_code |-> 422,
        duration_s |-> 20, client_id |-> Some("abc") ],
      [ method |-> "POST", path_template |-> Some(ContactPath), status_code |-> 200,
        duration_s |-> 500, client_id |-> None ],
      [ method |-> "GET", path_template |-> Some(RootPath), status_code |-> 307,
        duration_s |-> 20, client_id |-> None ],
      [ method |-> "GET", path_template |-> None, status_code |-> 404,
        duration_s |-> 1, client_id |-> None ],
      [ method |-> "POST", path_template |-> Some(ContactPath), status_code |-> 201,
        duration_s |-> 20, client_id |-> Some("abc") ],
      [ method |-> "GET", path_template |-> Some(CrashPath), status_code |-> 500,
        duration_s |-> 20, client_id |-> Some("abc") ] }

MSpec(codes, security) == [ responses |-> codes, security |-> security ]

Item(method_lower, codes, security) ==
    [ method_lower |-> method_lower, mspec |-> MSpec(codes, security) ]

Route(methods, path) == [ methods |-> methods, path_format |-> path ]

\* the application of the tests: the root redirect, the contact resource
\* with authenticated GET and POST, and the pubsub ingestion endpoint
CtmsRoutes ==
    << Route({ "GET" }, RootPath),
       Route({ "GET" }, ContactPath),
       Route({ "POST" }, ContactPath),
       Route({ "POST" }, PubsubPath) >>

CtmsOpenapi ==
    (ContactPath :>
        << Item("get", Some(<< "200", "401", "404", "422" >>), TRUE),
           Item("post", Some(<< "200" >>), TRUE) >>)
    @@ (PubsubPath :> << Item("post", Some(<< "200", "422" >>), TRUE) >>)

-----------------------------------------------------------------------------
(* The process: startup, then requests and scrapes in any order *)

NoCalls == [ init |-> 0, emit |-> 0, report |-> 0 ]

\* no request is between two updates of its emit call
NoInflight == << >>

\* the registry of the process holds the metrics that were built on it
StartRegistries(m) == (ProcessRegistry :> MetricCollectors(m))

Init ==
    /\ routes = CtmsRoutes
    /\ openapi = CtmsOpenapi
    /\ db_client_ids \in { << >>, << "abc" >> }
    /\ settings \in SettingsOutcomes
    /\ metrics \in { NoMetrics, init_metrics }
    /\ registries = StartRegistries(metrics)
    /\ reporting = 0
    /\ returned = { }
    /\ raised = ""
    /\ ncalls = NoCalls
    /\ inflight = NoInflight

\* startup: init_metrics_labels(dbsession, app, metrics)
InitMetricsLabels ==
    /\ ncalls.init < MaxInitCalls
    /\ LET r == init_metrics_labels(routes, openapi, db_client_ids, metrics)
       IN  /\ metrics' = r.metrics
           /\ raised' = r.raised
    /\ ncalls' = [ ncalls EXCEPT !.init = @ + 1 ]
    /\ UNCHANGED << app, settings, registries, reporting, returned, inflight >>

\* the middleware, after a request: emit_response_metrics(context, metrics)
Emit(context) ==
    /\ ncalls.emit < MaxEmitCalls
    /\ LET r == emit_response_metrics(context, metrics)
       IN  /\ metrics' = r.metrics
           /\ raised' = r.raised
    /\ ncalls' = [ ncalls EXCEPT !.emit = @ + 1 ]
    /\ UNCHANGED << app, settings, registries, reporting, returned, inflight >>

\* a scrape: get_metrics_reporting_registry(the registry of the process)
GetMetricsReportingRegistry ==
    /\ ncalls.report < MaxReportCalls
    /\ LET r == get_metrics_reporting_registry(ProcessRegistry, settings, registries)
       IN  /\ registries' = r.registries
           /\ raised' = r.raised
           /\ IF r.raised = ""
              THEN /\ reporting' = r.result
                   /\ returned' = returned \cup { r.result }
              ELSE UNCHANGED << reporting, returned >>
    /\ ncalls' = [ ncalls EXCEPT !.report = @ + 1 ]
    /\ UNCHANGED << app, settings, metrics, inflight >>

Next ==
    \/ InitMetricsLabels
    \/ \E context \in SampleContexts : Emit(context)
    \/ GetMetricsReportingRegistry

Spec == Init /\ [][Next]_vars

-----------------------------------------------------------------------------
(* The label space of any application: init_metrics_labels on fresh metrics *)

\* the path items an API spec can hold for a path
PathItems ==
    { << >>,
      << Item("post", None, TRUE) >>,
      << Item("get", Some(<< "200", "404", "422" >>), TRUE),
         Item("post", Some(<< "201" >>), FALSE) >> }

Paths == { RootPath, ContactPath, PubsubPath }

AllRoutes == { Route(ms, p) : ms \in (SUBSET Methods) \ { { } }, p \in Paths }

RouteTables == UNION { [ 1..n -> AllRoutes ] : n \in 0..MaxRoutes }

\* the API specs over the paths of a route table
Openapis(rs) ==
    LET paths == { rs[i].path_format : i \in DOMAIN rs }
    IN  UNION { [ ps -> PathItems ] : ps \in SUBSET paths }

ClientIdLists == { << >>, << "abc", "xyz" >> }

InitLabels ==
    /\ routes \in RouteTables
    /\ openapi \in Openapis(routes)
    /\ db_client_ids \in ClientIdLists
    /\ settings = [ error |-> FALSE, prometheus_multiproc_dir |-> None ]
    /\ metrics = init_metrics
    /\ registries = StartRegistries(metrics)
    /\ reporting = 0
    /\ returned = { }
    /\ raised = ""
    /\ ncalls = NoCalls
    /\ inflight = NoInflight

NextLabels == InitMetricsLabels

SpecLabels == InitLabels /\ [][NextLabels]_vars

-----------------------------------------------------------------------------
(* Requests: startup, then emit_response_metrics for any context *)

InitEmit ==
    /\ routes = CtmsRoutes
    /\ openapi = CtmsOpenapi
    /\ db_client_ids = << "abc" >>
    /\ settings = [ error |-> FALSE, prometheus_multiproc_dir |-> None ]
    /\ metrics \in { NoMetrics, init_metrics }
    /\ registries = StartRegistries(metrics)
    /\ reporting = 0
    /\ returned = { }
    /\ raised = ""
    /\ ncalls = NoCalls
    /\ inflight = NoInflight

\* init_metrics_labels runs once, before the first request is served
Startup ==
    /\ ncalls.init = 0
    /\ ncalls.emit = 0
    /\ InitMetricsLabels

NextEmit ==
    \/ Startup
    \/ \E context \in Contexts : Emit(context)

SpecEmit == InitEmit /\ [][NextEmit]_vars

-----------------------------------------------------------------------------
(* Incomplete inputs: entries of app.routes that are not routes, path items *)
(* without responses, contexts and metrics mappings that lack keys          *)

\* the part of a mapping over some of its keys
Restrict(mapping, keys) == [ k \in (DOMAIN mapping) \cap keys |-> mapping[k] ]

\* a Mount of app.routes: it has a path and an app, and no methods
Mount(path) == [ path |-> path, app |-> "StaticFiles" ]

StaticPath == "/static"

RouteEntries ==
    { Route({ "GET" }, RootPath), Route({ "POST" }, ContactPath), Mount(StaticPath) }

EntryTables == UNION { [ 1..n -> RouteEntries ] : n \in 1..MaxRoutes }

\* the API spec of the tests, and one whose POST declares no responses
IncompleteOpenapis ==
    { CtmsOpenapi, (ContactPath :> << Item("post", None, TRUE) >>) }

\* the metrics of init_metrics, all of them or without one of the keys that
\* emit_response_metrics looks up, and the empty mapping
MetricsMappings ==
    { Restrict(init_metrics, MetricKeys \ ks) :
        ks \in { { } , { "requests" }, { "requests_duration" }, { "api_requests" },
                 MetricKeys } }

\* a context of an authenticated request, with any of its keys missing
PartialContexts ==
    LET context == [ method |-> "POST", path_template |-> Some(ContactPath),
                     status_code |-> 200, duration_s |-> 20,
                     client_id |-> Some("abc") ]
    IN  { Restrict(context, ks) : ks \in SUBSET (DOMAIN context) }

InitFaults ==
    /\ routes \in EntryTables
    /\ openapi \in IncompleteOpenapis
    /\ db_client_ids = << "abc" >>
    /\ settings = [ error |-> FALSE, prometheus_multiproc_dir |-> None ]
    /\ metrics \in MetricsMappings
    /\ registries = StartRegistries(metrics)
    /\ reporting = 0
    /\ returned = { }
    /\ raised = ""
    /\ ncalls = NoCalls
    /\ inflight = NoInflight

NextFaults ==
    \/ Startup
    \/ \E context \in PartialContexts : Emit(context)

SpecFaults == InitFaults /\ [][NextFaults]_vars

-----------------------------------------------------------------------------
(* Concurrent requests of one process: each emit_response_metrics call runs *)
(* its lines in order, and the calls interleave between two series updates; *)
(* inc() and observe() of one series are atomic in prometheus_client         *)

Requests == 1 .. MaxInflight

Idle == [ context |-> None, pc |-> "idle" ]

\* the contexts of concurrent requests: two clients' and an anonymous request
\* on the same resource, with the same and with another status code, and a
\* request that matched no route
ConcurrentContexts ==
    { [ method |-> "GET", path_template |-> Some(ContactPath), status_code |-> 200,
        duration_s |-> 20, client_id |-> Some("abc") ],
      [ method |-> "GET", path_template |-> Some(ContactPath), status_code |-> 200,
        duration_s |-> 500, client_id |-> None ],
      [ method |-> "GET", path_template |-> Some(ContactPath), status_code |-> 404,
        duration_s |-> 20, client_id |-> Some("abc") ],
      [ method |-> "GET", path_template |-> None, status_code |-> 404,
        duration_s |-> 1, client_id |-> None ] }

InitConcurrent ==
    /\ routes = CtmsRoutes
    /\ openapi = CtmsOpenapi
    /\ db_client_ids = << "abc" >>
    /\ settings = [ error |-> FALSE, prometheus_multiproc_dir |-> None ]
    /\ metrics \in { NoMetrics, init_metrics }
    /\ registries = StartRegistries(metrics)
    /\ reporting = 0
    /\ returned = { }
    /\ raised = ""
    /\ ncalls = NoCalls
    /\ inflight = [ i \in Requests |-> Idle ]

\* lines 155-167 of the call of request i: the two early returns, and the
\* reads of the context
Call(i, context) ==
    /\ inflight[i].pc = "idle"
    /\ LET skip == metrics = NoMetrics \/ ~ Truthy(Get(context, "path_template"))
           miss == ~ ({ "method", "duration_s", "status_code" } \subseteq DOMAIN context)
       IN  /\ inflight' = [ inflight EXCEPT ![i] =
                 [ context |-> Some(context),
                   pc      |-> IF skip \/ miss THEN "done" ELSE "requests" ] ]
           /\ raised' = IF ~ skip /\ miss THEN "KeyError" ELSE raised
    /\ ncalls' = [ ncalls EXCEPT !.emit = @ + 1 ]
    /\ UNCHANGED << app, settings, metrics, registries, reporting, returned >>

\* one update of the call of request i; an update that raises ends the call
Update(i, pc, r, next) ==
    /\ inflight[i].pc = pc
    /\ metrics' = r.metrics
    /\ raised' = IF r.raised # "" THEN r.raised ELSE raised
    /\ inflight' = [ inflight EXCEPT ![i].pc = IF r.raised # "" THEN "done" ELSE next ]
    /\ UNCHANGED << app, settings, registries, reporting, returned, ncalls >>

\* lines 169-174
UpdateRequests(i) ==
    /\ inflight[i].pc = "requests"
    /\ Update(i, "requests", EmitRequests(inflight[i].context[1], metrics),
              "requests_duration")

\* lines 176-180
UpdateDuration(i) ==
    /\ inflight[i].pc = "requests_duration"
    /\ Update(i, "requests_duration", EmitDuration(inflight[i].context[1], metrics),
              "api_requests")

\* lines 182-189, and the return
UpdateApiRequests(i) ==
    /\ inflight[i].pc = "api_requests"
    /\ Update(i, "api_requests", EmitApiRequests(inflight[i].context[1], metrics),
              "done")

NextConcurrent ==
    \/ Startup
    \/ \E i \in Requests, context \in ConcurrentContexts : Call(i, context)
    \/ \E i \in Requests : UpdateRequests(i)
    \/ \E i \in Requests : UpdateDuration(i)
    \/ \E i \in Requests : UpdateApiRequests(i)

SpecConcurrent == InitConcurrent /\ [][NextConcurrent]_vars

-----------------------------------------------------------------------------
(* Properties of emit_response_metrics *)

\* the label of a status code and its family, written out
CodeLabel ==
    (200 :> "200") @@ (404 :> "404") @@ (422 :> "422") @@ (307 :> "307") @@
    (201 :> "201") @@ (500 :> "500")

FamilyLabel ==
    (200 :> "2xx") @@ (404 :> "4xx") @@ (422 :> "4xx") @@ (307 :> "3xx") @@
    (201 :> "2xx") @@ (500 :> "5xx")

\* the value a scrape shows for a series; a series not created yet counts 0
CounterValue(metric, key) == IF key \in DOMAIN metric THEN metric[key] ELSE 0

HistogramValue(metric, key) ==
    IF key \in DOMAIN metric THEN metric[key]
    ELSE [ count |-> 0, sum |-> 0, buckets |-> [ i \in 1..8 |-> 0 ] ]

\* every series but key is there before and after, with the same value
OthersKept(before, after, key) ==
    /\ (DOMAIN after) \ { key } = (DOMAIN before) \ { key }
    /\ \A k \in (DOMAIN before) \ { key } : after[k] = before[k]

HasPath(context) ==
    /\ "path_template" \in DOMAIN context
    /\ context.path_template \notin { None, Some("") }

HasClient(context) ==
    /\ "client_id" \in DOMAIN context
    /\ context.client_id \notin { None, Some("") }

RequestKey(context) ==
    << context.method, context.path_template[1], CodeLabel[context.status_code],
       FamilyLabel[context.status_code] >>

TimingKey(context) ==
    << context.method, context.path_template[1], FamilyLabel[context.status_code] >>

ApiKey(context) ==
    << context.method, context.path_template[1], context.client_id[1],
       FamilyLabel[context.status_code] >>

\* the request-count series of the context grew by 1, the others are kept
RequestCounted(context) ==
    /\ RequestKey(context) \in DOMAIN metrics'["requests"]
    /\ metrics'["requests"][RequestKey(context)] =
         CounterValue(metrics["requests"], RequestKey(context)) + 1
    /\ OthersKept(metrics["requests"], metrics'["requests"], RequestKey(context))

\* the duration series of the context has one more observation of the
\* duration, the others are kept
DurationObserved(context) ==
    LET key == TimingKey(context)
        old == HistogramValue(metrics["requests_duration"], key)
    IN  /\ key \in DOMAIN metrics'["requests_duration"]
        /\ LET new == metrics'["requests_duration"][key]
           IN  /\ new.count = old.count + 1
               /\ new.sum = old.sum + context.duration_s
               /\ \A i \in 1..7 :
                    new.buckets[i] = old.buckets[i] +
                        (IF BucketBounds[i] >= context.duration_s THEN 1 ELSE 0)
               /\ new.buckets[8] = old.buckets[8] + 1
        /\ OthersKept(metrics["requests_duration"], metrics'["requests_duration"], key)

\* C1: for a context with a path_template and a client_id, one call of
\* emit_response_metrics on built metrics adds 1 to the request-count series
\* (method, path_template, status_code, family), one observation of the
\* duration to the duration series (method, path_template, family): count
\* plus 1, sum plus the duration, every bucket whose bound is >= the duration
\* plus 1, and 1 to the per-client series (method, path_template, client_id,
\* family); every other series of every metric keeps its value.
C1_EmitCountsOnce ==
    [][ \A context \in Contexts :
          ( /\ metrics # NoMetrics
            /\ HasPath(context)
            /\ HasClient(context)
            /\ Emit(context) )
          => /\ raised' = ""
             /\ DOMAIN metrics' = DOMAIN metrics
             /\ RequestCounted(context)
             /\ DurationObserved(context)
             /\ ApiKey(context) \in DOMAIN metrics'["api_requests"]
             /\ metrics'["api_requests"][ApiKey(context)] =
                  CounterValue(metrics["api_requests"], ApiKey(context)) + 1
             /\ OthersKept(metrics["api_requests"], metrics'["api_requests"],
                           ApiKey(context))
             /\ metrics'["pending_acoustic_sync"] = metrics["pending_acoustic_sync"]
      ]_vars

\* a second request of a client on the contact resource was counted
C1_Witness ==
    /\ ncalls.emit = 2
    /\ metrics # NoMetrics
    /\ CounterValue(metrics["requests"], << "GET", ContactPath, "200", "2xx" >>) = 2
    /\ HistogramValue(metrics["requests_duration"],
                      << "GET", ContactPath, "2xx" >>).sum = 520
    /\ CounterValue(metrics["api_requests"],
                    << "GET", ContactPath, "abc", "2xx" >>) = 2

\* C2: emit_response_metrics is a no-op when the metrics mapping is empty or
\* the context has no path_template (missing, None or empty): no series
\* changes and none is created, whatever the other fields are.
C2_EmitSkips ==
    [][ \A context \in Contexts :
          ( /\ (metrics = NoMetrics \/ ~ HasPath(context))
            /\ Emit(context) )
          => /\ metrics' = metrics
             /\ raised' = ""
      ]_vars

\* two requests were handled and the built metrics hold no series yet
C2_Witness ==
    /\ ncalls.emit = 2
    /\ ncalls.init = 0
    /\ metrics = init_metrics

\* C3: for a context with a path_template and no client_id (missing, None
\* or empty), emit_response_metrics updates the request-count and the
\* duration series and leaves the whole per-client metric as it was.
C3_NoClientNoApiSeries ==
    [][ \A context \in Contexts :
          ( /\ metrics # NoMetrics
            /\ HasPath(context)
            /\ ~ HasClient(context)
            /\ Emit(context) )
          => /\ raised' = ""
             /\ RequestCounted(context)
             /\ DurationObserved(context)
             /\ metrics'["api_requests"] = metrics["api_requests"]
      ]_vars

\* an anonymous request on the authenticated contact resource was counted,
\* and the per-client series created at startup are all at 0
C3_Witness ==
    /\ ncalls.init = 1
    /\ metrics # NoMetrics
    /\ CounterValue(metrics["requests"], << "GET", ContactPath, "200", "2xx" >>) = 1
    /\ << "GET", ContactPath, "abc", "2xx" >> \in DOMAIN metrics["api_requests"]
    /\ \A k \in DOMAIN metrics["api_requests"] : metrics["api_requests"][k] = 0

\* init_metrics_labels has completed on the metrics of the process
StartupDone == ncalls.init >= 1 /\ metrics # NoMetrics

LabelledKeys == { "requests", "requests_duration", "api_requests" }

\* C12 as stated: once init_metrics_labels has completed, an emit call whose
\* path_template is the template of a registered route leaves the set of
\* series of each of the three metrics as it was.
C12_LabelSpaceFixed ==
    [][ \A context \in Contexts :
          ( /\ StartupDone
            /\ HasPath(context)
            /\ \E i \in DOMAIN routes :
                  routes[i].path_format = context.path_template[1]
            /\ Emit(context) )
          => \A key \in LabelledKeys : DOMAIN metrics'[key] = DOMAIN metrics[key]
      ]_vars

\* C12, amended: once init_metrics_labels has completed, an emit call for a
\* context with a path_template adds to each metric at most the one series
\* named by the labels of the context, and removes none: the request-count
\* series (method, path_template, status_code, family), the duration series
\* (method, path_template, family) and, with a client_id, the per-client
\* series.  The sets of series stay as they were exactly when these series
\* exist already; a status code that is not declared for the route adds
\* its series.
C12_EmitAddsOnlyItsLabels ==
    [][ \A context \in Contexts :
          ( /\ StartupDone
            /\ HasPath(context)
            /\ Emit(context) )
          => /\ DOMAIN metrics'["requests"] =
                  DOMAIN metrics["requests"] \cup { RequestKey(context) }
             /\ DOMAIN metrics'["requests_duration"] =
                  DOMAIN metrics["requests_duration"] \cup { TimingKey(context) }
             /\ DOMAIN metrics'["api_requests"] =
                  DOMAIN metrics["api_requests"] \cup
                      (IF HasClient(context) THEN { ApiKey(context) } ELSE { })
             /\ DOMAIN metrics'["pending_acoustic_sync"] =
                  DOMAIN metrics["pending_acoustic_sync"]
      ]_vars

\* after startup a POST on the contact resource answered 404, which the API
\* spec does not declare for POST: its series exist, next to those of startup
C12_Witness ==
    /\ StartupDone
    /\ << "POST", ContactPath, "200", "2xx" >> \in DOMAIN metrics["requests"]
    /\ << "POST", ContactPath, "404", "4xx" >> \in DOMAIN metrics["requests"]
    /\ << "POST", ContactPath, "4xx" >> \in DOMAIN metrics["requests_duration"]
    /\ << "POST", ContactPath, "abc", "4xx" >> \in DOMAIN metrics["api_requests"]
    /\ metrics["requests"][<< "POST", ContactPath, "200", "2xx" >>] = 0

\* C13: no call of emit_response_metrics lets an exception out, whatever
\* keys the context and the metrics mapping have or lack, and a call that
\* misses a key it looks up changes nothing.
C13_EmitNeverRaises ==
    [][ \A context \in PartialContexts :
          Emit(context)
          => /\ raised' = ""
             /\ ( \/ ~ ({ "method", "duration_s", "status_code" } \subseteq DOMAIN context)
                  \/ ~ (LabelledKeys \subseteq DOMAIN metrics) )
                => metrics' = metrics
      ]_vars

\* the requests whose call has made the update of a metric
Updated(key) ==
    { i \in Requests :
        /\ inflight[i].context # None
        /\ HasPath(inflight[i].context[1])
        /\ inflight[i].pc \in
             CASE key = "requests" -> { "requests_duration", "api_requests", "done" }
               [] key = "requests_duration" -> { "api_requests", "done" }
               [] key = "api_requests" -> { "done" }
        /\ key = "api_requests" => HasClient(inflight[i].context[1]) }

ContextOf(i) == inflight[i].context[1]

\* the sum of the durations of a set of requests
RECURSIVE TotalDuration(_)
TotalDuration(is) ==
    IF is = { } THEN 0
    ELSE LET i == CHOOSE j \in is : TRUE
         IN  ContextOf(i).duration_s + TotalDuration(is \ { i })

\* C14: with the emit calls of concurrent requests interleaved between their
\* series updates in any order, no update is lost: at any moment each
\* request-count, duration and per-client series holds exactly the updates of
\* the calls that have made their update of it, so once all calls have
\* returned each series has grown from 0 by the number of calls that targeted
\* it (the duration series also by the sum of their durations), and no other
\* series exists beyond those of startup.
C14_NoLostUpdate ==
    metrics # NoMetrics =>
        /\ \A k \in DOMAIN metrics["requests"] :
             metrics["requests"][k] =
                 Cardinality({ i \in Updated("requests") : RequestKey(ContextOf(i)) = k })
        /\ \A i \in Updated("requests") :
             RequestKey(ContextOf(i)) \in DOMAIN metrics["requests"]
        /\ \A k \in DOMAIN metrics["requests_duration"] :
             LET is == { i \in Updated("requests_duration") : TimingKey(ContextOf(i)) = k }
             IN  /\ metrics["requests_duration"][k].count = Cardinality(is)
                 /\ metrics["requests_duration"][k].sum = TotalDuration(is)
                 /\ metrics["requests_duration"][k].buckets[8] = Cardinality(is)
        /\ \A i \in Updated("requests_duration") :
             TimingKey(ContextOf(i)) \in DOMAIN metrics["requests_duration"]
        /\ \A k \in DOMAIN metrics["api_requests"] :
             metrics["api_requests"][k] =
                 Cardinality({ i \in Updated("api_requests") : ApiKey(ContextOf(i)) = k })
        /\ \A i \in Updated("api_requests") :
             ApiKey(ContextOf(i)) \in DOMAIN metrics["api_requests"]

\* three requests have returned after startup: two on the same request-count
\* and duration series, one of them anonymous, and one on another series
C14_Witness ==
    /\ StartupDone
    /\ \A i \in Requests : inflight[i].pc = "done"
    /\ metrics["requests"][<< "GET", ContactPath, "200", "2xx" >>] = 2
    /\ metrics["requests_duration"][<< "GET", ContactPath, "2xx" >>].sum = 520
    /\ metrics["api_requests"][<< "GET", ContactPath, "abc", "2xx" >>] = 1
    /\ metrics["requests"][<< "GET", ContactPath, "404", "4xx" >>] = 1

-----------------------------------------------------------------------------
(* Properties of get_metrics_reporting_registry *)

DirConfigured ==
    /\ ~ settings.error
    /\ settings.prometheus_multiproc_dir \notin { None, Some("") }

\* C10: with a multiprocess directory configured, each call of
\* get_metrics_reporting_registry returns a new registry, which is not the
\* registry of the process nor one returned before, whose only collector is
\* the multiprocess collector of the directory; the registry of the process
\* and its collectors, and the metrics, are as before.
C10_FreshReportingRegistry ==
    [][ (GetMetricsReportingRegistry /\ DirConfigured)
        => /\ reporting' # ProcessRegistry
           /\ reporting' \notin returned
           /\ reporting' \notin DOMAIN registries
           /\ reporting' \in DOMAIN registries'
           /\ registries'[reporting'] =
                { [ kind |-> "MultiProcessCollector",
                    of   |-> settings.prometheus_multiproc_dir[1] ] }
           /\ \A r \in DOMAIN registries : registries'[r] = registries[r]
           /\ registries'[ProcessRegistry] = MetricCollectors(metrics)
           /\ metrics' = metrics
      ]_vars

\* two scrapes got two registries, after requests were counted
C10_Witness ==
    /\ DirConfigured
    /\ ncalls.report = 2
    /\ ncalls.emit >= 1
    /\ Cardinality(returned) = 2
    /\ metrics # NoMetrics

\* C11: when no multiprocess directory can be resolved (the settings fail
\* with a ValidationError, or their directory is None or empty), a call of
\* get_metrics_reporting_registry raises nothing, returns the registry of the
\* process itself, creates no registry and attaches no collector to any:
\* the registry of the process holds the collectors of its metrics only.
C11_PassthroughRegistry ==
    [][ (GetMetricsReportingRegistry /\ ~ DirConfigured)
        => /\ raised' = ""
           /\ reporting' = ProcessRegistry
           /\ returned' = returned \cup { ProcessRegistry }
           /\ registries' = registries
           /\ DOMAIN registries' = { ProcessRegistry }
           /\ registries'[ProcessRegistry] = MetricCollectors(metrics)
           /\ \A c \in registries'[ProcessRegistry] : c.kind # "MultiProcessCollector"
           /\ metrics' = metrics
      ]_vars

\* a scrape of a process whose settings do not load, after a request
C11_Witness ==
    /\ settings.error
    /\ ncalls.report >= 1
    /\ ncalls.emit >= 1
    /\ reporting = ProcessRegistry
    /\ returned = { ProcessRegistry }
    /\ raised = ""

-----------------------------------------------------------------------------
(* Properties of init_metrics_labels, on freshly built metrics *)

\* init_metrics_labels has returned
LabelsInitialised == ncalls.init >= 1 /\ raised = ""

\* the methods of the keys of a path item, written out
MethodName == ("get" :> "GET") @@ ("post" :> "POST")

\* the family of a status code label, written out
FamilyOfLabel ==
    ("200" :> "2xx") @@ ("201" :> "2xx") @@ ("307" :> "3xx") @@
    ("401" :> "4xx") @@ ("404" :> "4xx") @@ ("422" :> "4xx") @@ ("500" :> "5xx")

\* the path item the API spec holds for a path, empty when it holds none
PathItem(p) == IF p \in DOMAIN openapi THEN openapi[p] ELSE << >>

\* the status code labels an entry of a path item declares: its responses,
\* and 200 when it has no responses
CodesOf(item) ==
    IF item.mspec.responses = None THEN { "200" }
    ELSE Range(item.mspec.responses[1])

\* the entries of the path item of a route for the methods of the route
RouteItems(route) ==
    { item \in Range(PathItem(route.path_format)) :
        MethodName[item.method_lower] \in route.methods }

\* the status code labels collected for a route
Collected(route) ==
    IF PathItem(route.path_format) # << >>
    THEN UNION { CodesOf(item) : item \in RouteItems(route) }
    ELSE IF route.path_format = "/" THEN { "307" } ELSE { "200" }

RouteFamilies(route) == { FamilyOfLabel[c] : c \in Collected(route) }

\* a method of the route requires authentication, and not on the pubsub path
ApiRoute(route) ==
    /\ \E item \in RouteItems(route) : item.mspec.security
    /\ route.path_format # "/stripe_from_pubsub"

UsedClientIds == IF db_client_ids = << >> THEN { "none" } ELSE Range(db_client_ids)

Series(key) == DOMAIN metrics[key]

AllZero(m) ==
    /\ \A k \in DOMAIN m["requests"] : m["requests"][k] = 0
    /\ \A k \in DOMAIN m["api_requests"] : m["api_requests"][k] = 0
    /\ \A k \in DOMAIN m["requests_duration"] :
         /\ m["requests_duration"][k].count = 0
         /\ m["requests_duration"][k].sum = 0
         /\ \A i \in 1..8 : m["requests_duration"][k].buckets[i] = 0
    /\ m["pending_acoustic_sync"][<< >>] = 0

\* C4: init_metrics_labels is idempotent: on freshly built metrics every
\* call leaves each series at 0, and a call after the first leaves the set
\* of series of each metric as the first call made it.
C4_InitIdempotent ==
    [][ (ncalls'.init = ncalls.init + 1)
        => /\ raised' = ""
           /\ AllZero(metrics')
           /\ (ncalls.init >= 1 =>
                 \A key \in DOMAIN metrics : DOMAIN metrics'[key] = DOMAIN metrics[key])
      ]_vars

\* a second call, on an application with per-client series
C4_Witness ==
    /\ ncalls.init = 2
    /\ Series("api_requests") # { }
    /\ Cardinality(Series("requests")) >= 3

\* a route registered at p carries method m
RouteAt(m, p) ==
    \E i \in DOMAIN routes : routes[i].path_format = p /\ m \in routes[i].methods

\* C5 as stated: for a path the API spec holds, a request-count series
\* (m, p, c, family(c)) exists if and only if c is declared for method m on p
\* (200 when m declares no responses) and a route registered at p carries m.
C5_SeriesPerDeclaredPair ==
    LabelsInitialised =>
        \A p \in { q \in DOMAIN openapi : openapi[q] # << >> } :
            { k \in Series("requests") : k[2] = p } =
            UNION { { << MethodName[item.method_lower], p, c, FamilyOfLabel[c] >> :
                        c \in CodesOf(item) } :
                    item \in { it \in Range(openapi[p]) :
                                 RouteAt(MethodName[it.method_lower], p) } }

\* C5, amended: after init_metrics_labels on fresh metrics a request-count
\* series (m, p, c, family(c)) exists if and only if some route registered at
\* p carries m and c is a status code collected for that route: on a path the
\* API spec holds, a code declared at p for any of the methods of that route
\* (200 for a method without responses), else 307 for "/" and 200 otherwise.
C5_SeriesPerCollectedCode ==
    LabelsInitialised =>
        Series("requests") =
            UNION { { << m, r.path_format, c, FamilyOfLabel[c] >> :
                        m \in r.methods, c \in Collected(r) } :
                    r \in Range(routes) }

\* a route with two methods has a series for a code only its other method
\* declares
C5_Witness ==
    /\ LabelsInitialised
    /\ \E i \in DOMAIN routes :
         /\ routes[i].methods = { "GET", "POST" }
         /\ "201" \in Collected(routes[i])
         /\ "404" \in Collected(routes[i])
         /\ << "GET", routes[i].path_format, "201", "2xx" >> \in Series("requests")

\* C6: after init_metrics_labels on fresh metrics a duration series
\* (m, p, f) exists if and only if a request-count series (m, p, c, ...)
\* exists for a status code c of family f: one series per family of the
\* collected codes, however many codes the family has, and none for a family
\* without a collected code.
C6_DurationSeriesPerFamily ==
    LabelsInitialised =>
        Series("requests_duration") =
            { << k[1], k[2], FamilyOfLabel[k[3]] >> : k \in Series("requests") }

\* 404 and 422 of one route share the single 4xx duration series
C6_Witness ==
    /\ LabelsInitialised
    /\ \E i \in DOMAIN routes :
         LET p == routes[i].path_format
         IN  /\ << "GET", p, "404", "4xx" >> \in Series("requests")
             /\ << "GET", p, "422", "4xx" >> \in Series("requests")
             /\ { k \in Series("requests_duration") : k[1] = "GET" /\ k[2] = p } =
                  { << "GET", p, "2xx" >>, << "GET", p, "4xx" >> }

\* C7 as stated: a per-client series (m, p, client, f) exists if and only if
\* the API spec marks method m on p as requiring authentication, p is not the
\* pubsub path, client is a client id used for initialization and f is a
\* status code family of a route at p that carries m.
C7_ApiSeriesPerSecuredMethod ==
    LabelsInitialised =>
        Series("api_requests") =
            UNION { { << m, r.path_format, client, f >> :
                        m \in { n \in r.methods :
                                  \E item \in Range(PathItem(r.path_format)) :
                                     /\ MethodName[item.method_lower] = n
                                     /\ item.mspec.security },
                        client \in UsedClientIds, f \in RouteFamilies(r) } :
                    r \in { q \in Range(routes) :
                              q.path_format # "/stripe_from_pubsub" } }

\* C7, amended: a per-client series (m, p, client, f) exists if and only if
\* some route registered at p carries m, the API spec marks at least one of
\* the methods of that route as requiring authentication on p, p does not end
\* with "from_pubsub", client is a client id used for initialization and f is
\* a status code family of that route.
C7_ApiSeriesPerApiRoute ==
    LabelsInitialised =>
        Series("api_requests") =
            UNION { { << m, r.path_format, client, f >> :
                        m \in r.methods, client \in UsedClientIds,
                        f \in RouteFamilies(r) } :
                    r \in { q \in Range(routes) : ApiRoute(q) } }

\* an authenticated route on the pubsub path has no per-client series, an
\* authenticated route elsewhere has
C7_Witness ==
    /\ LabelsInitialised
    /\ \E i \in DOMAIN routes :
         /\ routes[i].path_format = "/stripe_from_pubsub"
         /\ \E item \in RouteItems(routes[i]) : item.mspec.security
    /\ Series("api_requests") # { }
    /\ \A k \in Series("api_requests") : k[2] # "/stripe_from_pubsub"

\* C8: with no active client id, the per-client series of every API route
\* are created with the placeholder "none", one per method and family; with
\* active client ids, only series of the listed ids exist, none of "none".
C8_PlaceholderClient ==
    LabelsInitialised =>
        /\ db_client_ids = << >> =>
             /\ \A k \in Series("api_requests") : k[3] = "none"
             /\ \A r \in { q \in Range(routes) : ApiRoute(q) } :
                  \A m \in r.methods, f \in RouteFamilies(r) :
                     << m, r.path_format, "none", f >> \in Series("api_requests")
        /\ db_client_ids # << >> =>
             \A k \in Series("api_requests") :
                k[3] \in Range(db_client_ids) /\ k[3] # "none"

\* an API route of an application without active client ids
C8_Witness ==
    /\ LabelsInitialised
    /\ db_client_ids = << >>
    /\ \E r \in Range(routes) :
         /\ ApiRoute(r)
         /\ \E k \in Series("api_requests") : k[2] = r.path_format /\ k[3] = "none"

\* C9: a route whose path the API spec does not hold gets, for each of its
\* methods, the one request-count series of the synthetic status code (307
\* on "/", 200 elsewhere), the one duration series of its family, and no
\* per-client series.
C9_SyntheticStatusCode ==
    LabelsInitialised =>
        \A r \in { q \in Range(routes) : q.path_format \notin DOMAIN openapi } :
            LET p == r.path_format
                code == IF p = "/" THEN "307" ELSE "200"
                family == IF p = "/" THEN "3xx" ELSE "2xx"
            IN  /\ \A m \in r.methods :
                     /\ { k \in Series("requests") : k[1] = m /\ k[2] = p } =
                          { << m, p, code, family >> }
                     /\ { k \in Series("requests_duration") : k[1] = m /\ k[2] = p } =
                          { << m, p, family >> }
                /\ \A k \in Series("api_requests") : k[2] # p

\* the root path and another path, both outside the API spec
C9_Witness ==
    /\ LabelsInitialised
    /\ openapi = << >>
    /\ << "GET", "/", "307", "3xx" >> \in Series("requests")
    /\ << "POST", "/ctms/{email_id}", "200", "2xx" >> \in Series("requests")

\* an entry of app.routes is not a route, or the path item of a route has an
\* entry for a method of the route that declares no responses
IncompleteMetadata ==
    \/ \E i \in DOMAIN routes : DOMAIN routes[i] # { "methods", "path_format" }
    \/ \E i \in DOMAIN routes :
         /\ DOMAIN routes[i] = { "methods", "path_format" }
         /\ \E item \in RouteItems(routes[i]) : item.mspec.responses = None

\* C15: init_metrics_labels fails fast on incomplete metadata: with an entry
\* that is not a route, or a method of a route declared without responses,
\* the call ends with an error.
C15_InitFailsFast ==
    [][ (ncalls'.init = ncalls.init + 1 /\ IncompleteMetadata) => raised' # "" ]_vars

-----------------------------------------------------------------------------
(* Properties across init_metrics_labels and emit_response_metrics *)

StatusCodeFamilyLabels == { "2xx", "3xx", "4xx", "5xx" }

\* the API spec declares the status code of the context for its method on
\* its path, and a route registered at the path carries the method
Declared(context) ==
    /\ RouteAt(context.method, context.path_template[1])
    /\ \E item \in Range(PathItem(context.path_template[1])) :
         /\ MethodName[item.method_lower] = context.method
         /\ CodeLabel[context.status_code] \in CodesOf(item)

\* C16: the family of a status code is its first digit followed by "xx":
\* every request-count series, created by init_metrics_labels or by
\* emit_response_metrics, pairs 200 and 201 with "2xx", 307 with "3xx", 401,
\* 404 and 422 with "4xx" and 500 with "5xx", and every duration and
\* per-client series carries one of these families; and after startup an
\* emit for a declared (method, path, status code) writes to request-count
\* and duration series that init_metrics_labels created, and creates none.
C16_SameFamilyInInitAndEmit ==
    /\ [] ( metrics # NoMetrics =>
              /\ \A k \in Series("requests") : k[4] = FamilyOfLabel[k[3]]
              /\ \A k \in Series("requests_duration") : k[3] \in StatusCodeFamilyLabels
              /\ \A k \in Series("api_requests") : k[4] \in StatusCodeFamilyLabels )
    /\ [][ \A context \in SampleContexts :
             ( /\ StartupDone
               /\ HasPath(context)
               /\ Declared(context)
               /\ Emit(context) )
             => /\ RequestKey(context) \in DOMAIN metrics["requests"]
                /\ TimingKey(context) \in DOMAIN metrics["requests_duration"]
                /\ DOMAIN metrics'["requests"] = DOMAIN metrics["requests"]
                /\ DOMAIN metrics'["requests_duration"] =
                     DOMAIN metrics["requests_duration"]
         ]_vars

\* after startup a declared 422 was counted on the series created at startup,
\* next to the series of 401, 307 and of a 500 that no route declares
C16_Witness ==
    /\ StartupDone
    /\ ncalls.emit = 2
    /\ metrics["requests"][<< "GET", ContactPath, "422", "4xx" >>] = 1
    /\ metrics["requests"][<< "GET", ContactPath, "401", "4xx" >>] = 0
    /\ metrics["requests"][<< "GET", RootPath, "307", "3xx" >>] = 0
    /\ << "GET", CrashPath, "500", "5xx" >> \in Series("requests")
    /\ Cardinality({ k \in Series("requests_duration") :
                       k[1] = "GET" /\ k[2] = ContactPath }) = 2

\* the sum of the values of some series of a counter
RECURSIVE SumOfSeries(_, _)
SumOfSeries(metric, keys) ==
    IF keys = { } THEN 0
    ELSE LET k == CHOOSE j \in keys : TRUE
         IN  metric[k] + SumOfSeries(metric, keys \ { k })

\* C17: in every state of a process with built metrics, for every (method,
\* path_template, family) the request-count values of the status codes of
\* that family add up to the observation count of the duration series of
\* these labels, which exists whenever one of those request-count series
\* does, and the per-client values of these labels add up to at most that
\* count.
C17_CrossMetricConsistency ==
    metrics # NoMetrics =>
        /\ \A k \in Series("requests") :
             << k[1], k[2], k[4] >> \in Series("requests_duration")
        /\ \A k \in Series("api_requests") :
             << k[1], k[2], k[4] >> \in Series("requests_duration")
        /\ \A d \in Series("requests_duration") :
             /\ SumOfSeries(metrics["requests"],
                            { k \in Series("requests") :
                                k[1] = d[1] /\ k[2] = d[2] /\ k[4] = d[3] })
                  = metrics["requests_duration"][d].count
             /\ SumOfSeries(metrics["api_requests"],
                            { k \in Series("api_requests") :
                                k[1] = d[1] /\ k[2] = d[2] /\ k[4] = d[3] })
                  <= metrics["requests_duration"][d].count

\* a 404 and a 422 of one client on the contact resource: one observation
\* each in the single 4xx duration series
C17_Witness ==
    /\ StartupDone
    /\ metrics["requests"][<< "GET", ContactPath, "404", "4xx" >>] = 1
    /\ metrics["requests"][<< "GET", ContactPath, "422", "4xx" >>] = 1
    /\ metrics["requests_duration"][<< "GET", ContactPath, "4xx" >>].count = 2
    /\ metrics["api_requests"][<< "GET", ContactPath, "abc", "4xx" >>] = 2

\* C18: after init_metrics_labels every route of the route table has, for
\* each of its methods, at least one request-count series and at least one
\* duration series.
C18_EveryRouteCovered ==
    LabelsInitialised =>
        \A r \in Range(routes) : \A m \in r.methods :
            /\ \E k \in Series("requests") : k[1] = m /\ k[2] = r.path_format
            /\ \E k \in Series("requests_duration") : k[1] = m /\ k[2] = r.path_format

=============================================================================
